---- MODULE Spec2Model ----
(***************************************************************************)
(* aeolus/misc.py: vertical_cross_section_area and                         *)
(* net_horizontal_flux_to_region, over a small (level, latitude,           *)
(* longitude) grid.  Numbers are exact integers: np.pi is the rational     *)
(* PiNum/PiDen, the planet radii are multiples of PiDen*180 and the grid   *)
(* latitudes have cosines in {0, 1/2, 1}, so that every product the code   *)
(* forms is an integer.  Grid points are even, so that the half spacings   *)
(* guess_bounds forms are integers too.                                    *)
(***************************************************************************)
EXTENDS Integers, Sequences, FiniteSets, TLC

VARIABLES
    mode,               \* which function the caller invokes: "area" or "flux"
    pc,                 \* position in the invoked function
    heap,               \* area call: the cube objects ("caller", "local", "result")
    r_planet,           \* argument r_planet
    raised,             \* the exception that left the call, or NoExc
    scalar_cube,        \* flux call: argument scalar_cube
    u,                  \* flux call: argument u
    v,                  \* flux call: argument v
    latlon_box_dict,    \* flux call: argument latlon_box_dict, in insertion order
    vertical_constraint,\* flux call: argument vertical_constraint
    i,                  \* flux call: enumerate index of the for loop (1-based)
    nearest,            \* flux call: local nearest of the current iteration
    vcross_cnstr,       \* flux call: local vcross_cnstr
    cube,               \* flux call: local cube, the extracted cross-section
    vcross_area,        \* flux call: local vcross_area
    total_h_fluxes,     \* flux call: local list total_h_fluxes
    warned,             \* flux call: the warnings.warn calls made so far
    net_flux            \* flux call: the returned cube, or None

vars == <<mode, pc, heap, r_planet, raised, scalar_cube, u, v, latlon_box_dict,
          vertical_constraint, i, nearest, vcross_cnstr, cube, vcross_area, total_h_fluxes,
          warned, net_flux>>

(***************************************************************************)
(* Bounds of the model.                                                    *)
(***************************************************************************)
NLev == 3
MaxWind == 1

(***************************************************************************)
(* Numbers.                                                                *)
(***************************************************************************)
PiNum == 22
PiDen == 7
DegPerHalfTurn == 180
WarnThreshold == 10

Abs(x) == IF x < 0 THEN -x ELSE x

None == [kind |-> "None"]
NoExc == "none"
Raise(exc) == [kind |-> "raise", exc |-> exc]

RECURSIVE SortedSeq(_)
SortedSeq(S) ==
    IF S = {} THEN <<>>
    ELSE LET m == CHOOSE x \in S : \A y \in S : x <= y
         IN <<m>> \o SortedSeq(S \ {m})

RECURSIVE SumSeq(_)
SumSeq(s) == IF s = <<>> THEN 0 ELSE Head(s) + SumSeq(Tail(s))

(***************************************************************************)
(* The grid of the gridded fields.                                         *)
(***************************************************************************)
LevPts == [k \in 1..NLev |-> k * (k + 1)]
LatPts == <<-60, 0, 60>>
LonPts == <<0, 90, 180, 270>>
LevBnds == [k \in 1..NLev |-> <<k * k, (k + 1) * (k + 1)>>]
LatBnds == [a \in 1..Len(LatPts) |-> <<LatPts[a] - 30, LatPts[a] + 30>>]
LonBnds == [a \in 1..Len(LonPts) |-> <<LonPts[a] - 45, LonPts[a] + 45>>]

GridPts(name) ==
    CASE name = "latitude" -> LatPts
      [] name = "longitude" -> LonPts
      [] OTHER -> LevPts

GridBnds(name) ==
    CASE name = "latitude" -> LatBnds
      [] name = "longitude" -> LonBnds
      [] OTHER -> LevBnds

\* A coordinate: its name, its points and its bounds (<<>> when it has none).
Coord(name, points, bounds) == [name |-> name, points |-> points, bounds |-> bounds]

\* A cube as far as the two functions read it: its dimension coordinates in
\* dimension order and its scalar coordinates.
Cube(dim_coords, scalar_coords) ==
    [kind |-> "cube", dim_coords |-> dim_coords, scalar_coords |-> scalar_coords]

(***************************************************************************)
(* iris, as misc.py uses it.                                               *)
(***************************************************************************)
HasBounds(coord) == coord.bounds # <<>>

\* Coord.guess_bounds(), bound_position 0.5: each cell reaches half way to
\* its neighbours, the first and last cells repeat the adjacent spacing.
\* (The latitudes used here keep the guessed bounds within [-90, 90], so
\* that a clipping of latitude bounds to that range changes nothing.)
GuessBoundsNoEdge(points) ==
    LET n == Len(points)
        diffs == [a \in 1..(n - 1) |-> points[a + 1] - points[a]]
        ext == <<0>> \o diffs \o <<0>>
    IN [a \in 1..n |-> <<points[a] - (ext[a] \div 2), points[a] + (ext[a + 1] \div 2)>>]

GuessBounds(points) ==
    LET n == Len(points)
        diffs == [a \in 1..(n - 1) |-> points[a + 1] - points[a]]
        ext == <<diffs[1]>> \o diffs \o <<diffs[n - 1]>>
    IN [a \in 1..n |-> <<points[a] - (ext[a] \div 2), points[a] + (ext[a + 1] \div 2)>>]

\* iris.util.guess_coord_axis
GuessCoordAxis(coord) ==
    CASE coord.name = "longitude" -> "X"
      [] coord.name = "latitude" -> "Y"
      [] OTHER -> "Z"

\* cube.coord(axis="Y"): the cube's coordinates, dimension or scalar, on that axis
CoordsOfAxis(c, axis) ==
    LET all == c.dim_coords \o c.scalar_coords
    IN SelectSeq(all, LAMBDA co : GuessCoordAxis(co) = axis)

\* 2 * cos(deg2rad(lat)) at the latitudes of the model
CosTimes2(lat) ==
    CASE lat = 0 -> 2
      [] lat \in {-60, 60} -> 1
      [] lat \in {-90, 90} -> 0

(***************************************************************************)
(* vertical_cross_section_area                                             *)
(***************************************************************************)
\* line 15: m_per_deg = (np.pi / 180) * r_planet
MPerDegBase(r) == (PiNum * r) \div (PiDen * DegPerHalfTurn)

\* lines 15-17: the factor, scaled by the cosine of the first latitude point
\* when the second dimension is longitude-like
MPerDegNoCos(c, r) == MPerDegBase(r)

MPerDeg(c, r) ==
    IF GuessCoordAxis(c.dim_coords[2]) = "X"
    THEN (MPerDegBase(r) * CosTimes2(CoordsOfAxis(c, "Y")[1].points[1])) \div 2
    ELSE MPerDegBase(r)

\* lines 19-21: every dimension coordinate without bounds gets guessed ones
WithGuessedBounds(c) ==
    [c EXCEPT !.dim_coords =
        [d \in 1..Len(c.dim_coords) |->
            IF HasBounds(c.dim_coords[d]) THEN c.dim_coords[d]
            ELSE [c.dim_coords[d] EXCEPT !.bounds = GuessBounds(c.dim_coords[d].points)]]]

\* lines 22-28: the outer product of the bounds' extents
AreaData(c, m_per_deg) ==
    LET x_bounds == c.dim_coords[2].bounds
        z_bounds == c.dim_coords[1].bounds
    IN [a \in 1..Len(z_bounds) |->
          [b \in 1..Len(x_bounds) |->
              (z_bounds[a][2] - z_bounds[a][1])
              * ((x_bounds[b][2] - x_bounds[b][1]) * m_per_deg)]]

\* lines 25-32: the returned cube, a copy with the data replaced, renamed,
\* and the bounds of its dimension coordinates removed
AreaCube(c, m_per_deg) ==
    [kind |-> "cube",
     dim_coords |-> [d \in 1..Len(c.dim_coords) |-> [c.dim_coords[d] EXCEPT !.bounds = <<>>]],
     scalar_coords |-> c.scalar_coords,
     data |-> AreaData(c, m_per_deg),
     units |-> "m**2",
     name |-> "vertical_section_area"]

\* line 14: cube2d = cube2d.copy() rebinds the local name to a new object
LocalRefAliased == "caller"

LocalRef == "local"

\* The exception the call leaves with on this argument, or NoExc
AreaRaises(cube2d) ==
    CASE cube2d = None -> "AttributeError"                              \* line 14
      [] cube2d # None /\ Len(cube2d.dim_coords) < 2 -> "IndexError"    \* line 16
      [] OTHER ->
           IF /\ GuessCoordAxis(cube2d.dim_coords[2]) = "X"
              /\ Len(CoordsOfAxis(cube2d, "Y")) # 1
           THEN "CoordinateNotFoundError"                               \* line 17
           ELSE IF \E d \in 1..2 : /\ ~HasBounds(cube2d.dim_coords[d])
                                   /\ Len(cube2d.dim_coords[d].points) < 2
           THEN "ValueError"                                            \* line 21
           ELSE NoExc

\* lines 14-33 on the objects: h.caller is the argument; the local name refers
\* to the copy, whose coordinates get the guessed bounds; h.result is returned
AreaHeap(h, r) ==
    LET h1 == [h EXCEPT !.local = h.caller]
        h2 == [h1 EXCEPT ![LocalRef] = WithGuessedBounds(h1[LocalRef])]
    IN [h2 EXCEPT !.result = AreaCube(h2[LocalRef], MPerDeg(h2[LocalRef], r))]

\* The whole function on a value: the returned cube, or the exception
VerticalCrossSectionArea(cube2d, r) ==
    IF AreaRaises(cube2d) # NoExc THEN Raise(AreaRaises(cube2d))
    ELSE AreaHeap([caller |-> cube2d, local |-> None, result |-> None], r).result

(***************************************************************************)
(* net_horizontal_flux_to_region                                           *)
(***************************************************************************)
BoxKeys == {"longitude0", "longitude1", "latitude0", "latitude1"}

\* line 45: ll_coord[:-1]
ThisCoord(ll_coord) ==
    IF ll_coord \in {"longitude0", "longitude1"} THEN "longitude" ELSE "latitude"

\* lines 40, 46: ll_other[ll_coord[:-1]]
OtherCoord(ll_coord) ==
    IF ThisCoord(ll_coord) = "longitude" THEN "latitude" ELSE "longitude"

\* line 41: perpendicular_wind_cmpnts
PerpendicularWind(this_coord, uu, vv) == IF this_coord = "longitude" THEN uu ELSE vv

BoxHas(box, key) == \E p \in 1..Len(box) : box[p].key = key
BoxGet(box, key) == box[CHOOSE p \in 1..Len(box) : box[p].key = key].val

\* coord_utils.nearest_coord_value: the grid value of the axis nearest to val
NearestCoordValue(points, val) ==
    LET best == CHOOSE a \in 1..Len(points) :
                    /\ \A b \in 1..Len(points) : Abs(points[a] - val) <= Abs(points[b] - val)
                    /\ \A b \in 1..(a - 1) : Abs(points[b] - val) > Abs(points[a] - val)
    IN points[best]

\* line 48: if abs(nearest - ll_val) > 10
WarnNeededAtThreshold(nearest_val, ll_val) == Abs(nearest_val - ll_val) >= WarnThreshold

WarnNeeded(nearest_val, ll_val) == Abs(nearest_val - ll_val) > WarnThreshold

\* line 58: the branch on other_max >= other_min; FALSE is the else branch
PlainRangeStrict(other_min, other_max) == other_max > other_min

PlainRange(other_min, other_max) == other_max >= other_min

\* line 60: lambda x: other_min <= x <= other_max
InRangeExclusive(x, other_min, other_max) == other_min < x /\ x < other_max

InRange(x, other_min, other_max) == other_min <= x /\ x <= other_max

\* line 65: lambda x: (other_max >= x) or (other_min <= x)
InWrappedRange(x, other_min, other_max) == other_max >= x \/ other_min <= x

\* lines 53-67: vcross_cnstr
VCrossCnstr(this_coord, nearest_val, other_coord, other_min, other_max, vc) ==
    [this_coord |-> this_coord, value |-> nearest_val, other_coord |-> other_coord,
     other_min |-> other_min, other_max |-> other_max,
     plain |-> PlainRange(other_min, other_max), vertical |-> vc]

\* Whether the constraint keeps the point x of the coordinate called name
Matches(cnstr, name, k, x) ==
    CASE name = cnstr.this_coord -> x = cnstr.value
      [] name = cnstr.other_coord ->
            IF cnstr.plain THEN InRange(x, cnstr.other_min, cnstr.other_max)
            ELSE InWrappedRange(x, cnstr.other_min, cnstr.other_max)
      [] OTHER -> cnstr.vertical.given => k \in cnstr.vertical.levels

AxisNames == <<"level_height", "latitude", "longitude">>

Selected(cnstr, name) ==
    SortedSeq({a \in 1..Len(GridPts(name)) : Matches(cnstr, name, a, GridPts(name)[a])})

SubCoord(name, idx, bounded) ==
    Coord(name, [a \in 1..Len(idx) |-> GridPts(name)[idx[a]]],
          IF bounded THEN [a \in 1..Len(idx) |-> GridBnds(name)[idx[a]]] ELSE <<>>)

\* cube.extract(constraint): None when a dimension keeps no point; a dimension
\* that keeps exactly one point becomes a scalar coordinate
Extract(field, cnstr) ==
    LET sel == [d \in 1..3 |-> Selected(cnstr, AxisNames[d])]
        co == [d \in 1..3 |-> SubCoord(AxisNames[d], sel[d], field.bounded)]
        dims == SelectSeq(co, LAMBDA c : Len(c.points) >= 2)
        scal == SelectSeq(co, LAMBDA c : Len(c.points) = 1)
    IN IF \E d \in 1..3 : sel[d] = <<>> THEN None
       ELSE [kind |-> "cube", dim_coords |-> dims, scalar_coords |-> scal,
             name |-> field.name,
             data |-> [k \in 1..Len(sel[1]) |->
                        [a \in 1..Len(sel[2]) |->
                          [b \in 1..Len(sel[3]) |-> field.data[sel[1][k]][sel[2][a]][sel[3][b]]]]]]

\* The data of an extracted cross-section as rows (levels) of the free axis
SectionRows(c, this_coord) ==
    [p \in 1..Len(c.data) |->
        IF this_coord = "latitude"
        THEN c.data[p][1]
        ELSE [q \in 1..Len(c.data[p]) |-> c.data[p][q][1]]]

\* lines 71-75, one cell: wind * scalar * area
CellFluxSum(w, s, a) == w * s + a

CellFlux(w, s, a) == w * s * a

\* lines 71-77: the product cube collapsed over its dimensions with SUM
CollapsedFlux(wrows, srows, arows) ==
    LET n0 == Len(arows)
        n1 == Len(arows[1])
        cells == [t \in 1..(n0 * n1) |->
                    LET p == ((t - 1) \div n1) + 1
                        q == ((t - 1) % n1) + 1
                    IN CellFlux(wrows[p][q], srows[p][q], arows[p][q])]
    IN SumSeq(cells)

\* lines 80-82
NetFluxReversed(t) == (t[2] - t[1]) + (t[4] - t[3])

NetFluxSummed(t) == (t[1] + t[2]) + (t[3] + t[4])

NetFlux(t) == (t[1] - t[2]) + (t[3] - t[4])

\* lines 80-82 on the list as it is: indexing a list shorter than four raises
ReturnValueZeroFilled(t) == [kind |-> "value", data |-> NetFlux(t \o <<0, 0, 0, 0>>)]

ReturnValue(t) ==
    IF Len(t) < 4 THEN Raise("IndexError")
    ELSE [kind |-> "value", data |-> NetFlux(t)]

(***************************************************************************)
(* The arguments the calls are made with.                                  *)
(***************************************************************************)
Radii == {1260, 2520}

\* Explicit bounds of an evenly spaced coordinate: half a spacing either side
MidpointBounds(points) ==
    LET d == points[2] - points[1]
    IN [a \in 1..Len(points) |-> <<points[a] - (d \div 2), points[a] + (d \div 2)>>]

LatCoords ==
    {Coord("latitude", p, IF b THEN MidpointBounds(p) ELSE <<>>) :
        p \in {LatPts, <<0, 60>>}, b \in BOOLEAN}

LonCoords ==
    {Coord("longitude", p, IF b THEN MidpointBounds(p) ELSE <<>>) :
        p \in {LonPts, <<90, 180>>}, b \in BOOLEAN}

LevCoords ==
    {Coord("level_height", LevPts, b) : b \in {<<>>, LevBnds}}
    \cup {Coord("level_height", <<LevPts[1]>>, <<>>)}

AreaInputs ==
    {Cube(<<la, lo>>, <<>>) : la \in LatCoords, lo \in LonCoords}
    \cup {Cube(<<z, la>>, <<Coord("longitude", <<90>>, <<>>)>>) : z \in LevCoords, la \in LatCoords}
    \cup {Cube(<<z, lo>>, <<Coord("latitude", <<y>>, <<>>)>>) :
            z \in LevCoords, lo \in LonCoords, y \in {-60, 0}}
    \cup {Cube(<<z, lo>>, <<>>) : z \in LevCoords, lo \in LonCoords}
    \cup {Cube(<<la>>, <<Coord("longitude", <<90>>, <<>>)>>) : la \in LatCoords}
    \cup {None}

LonVals == {0, 115, 270}
LatVals == {-60, 10, 75}

KeyOrders ==
    {o \in [1..4 -> BoxKeys] : \A p, q \in 1..4 : p # q => o[p] # o[q]}
    \cup {<<>>, <<"longitude0", "longitude1">>}

BoxValue(key, lon0, lon1, lat0, lat1) ==
    CASE key = "longitude0" -> lon0
      [] key = "longitude1" -> lon1
      [] key = "latitude0" -> lat0
      [] key = "latitude1" -> lat1

Boxes ==
    {[p \in 1..Len(o) |-> [key |-> o[p], val |-> BoxValue(o[p], lon0, lon1, lat0, lat1)]] :
        o \in KeyOrders, lon0 \in LonVals, lon1 \in LonVals, lat0 \in LatVals, lat1 \in LatVals}

NLat == Len(LatPts)
NLon == Len(LonPts)

ScalarData ==
    [k \in 1..NLev |-> [a \in 1..NLat |-> [b \in 1..NLon |-> 1 + ((k + 2 * a + 3 * b) % 3)]]]

UData(amp) ==
    [k \in 1..NLev |-> [a \in 1..NLat |-> [b \in 1..NLon |-> amp * (1 + ((k + a + b) % 2))]]]

VData(amp) ==
    [k \in 1..NLev |-> [a \in 1..NLat |-> [b \in 1..NLon |-> amp * ((2 * a) - 3 - ((k + b) % 2))]]]

Field(name, bounded, data) == [name |-> name, bounded |-> bounded, data |-> data]

\* vertical_constraint: not given, or a constraint keeping a set of levels
VerticalConstraints ==
    {[given |-> FALSE, levels |-> {}]}
    \cup {[given |-> TRUE, levels |-> L] : L \in {{2}, 2..NLev}}

NoHeap == [caller |-> None, local |-> None, result |-> None]
NoField == Field("", FALSE, <<>>)
NoVertical == [given |-> FALSE, levels |-> {}]

InitArea ==
    /\ mode = "area"
    /\ pc = "area_call"
    /\ heap \in {[caller |-> c, local |-> None, result |-> None] : c \in AreaInputs}
    /\ r_planet \in Radii
    /\ scalar_cube = NoField /\ u = NoField /\ v = NoField
    /\ latlon_box_dict = <<>>
    /\ vertical_constraint = NoVertical

InitFlux ==
    /\ mode = "flux"
    /\ pc = "loop"
    /\ heap = NoHeap
    /\ r_planet = 1260
    /\ \E b \in BOOLEAN : scalar_cube = Field("q", b, ScalarData)
    /\ \E amp \in 0..MaxWind :
          /\ u = Field("x_wind", scalar_cube.bounded, UData(amp))
          /\ v = Field("y_wind", scalar_cube.bounded, VData(amp))
    /\ latlon_box_dict \in Boxes
    /\ vertical_constraint \in VerticalConstraints

Init ==
    /\ InitArea \/ InitFlux
    /\ raised = NoExc
    /\ i = 1
    /\ nearest = None
    /\ vcross_cnstr = None
    /\ cube = None
    /\ vcross_area = None
    /\ total_h_fluxes = <<>>
    /\ warned = <<>>
    /\ net_flux = None

(***************************************************************************)
(* A call of vertical_cross_section_area by itself.                        *)
(***************************************************************************)
fluxVars == <<scalar_cube, u, v, latlon_box_dict, vertical_constraint, i, nearest,
              vcross_cnstr, cube, vcross_area, total_h_fluxes, warned, net_flux>>

AreaCall ==
    /\ mode = "area"
    /\ pc = "area_call"
    /\ IF AreaRaises(heap.caller) # NoExc
       THEN /\ raised' = AreaRaises(heap.caller)
            /\ pc' = "raised"
            /\ heap' = heap
       ELSE /\ heap' = AreaHeap(heap, r_planet)
            /\ pc' = "returned"
            /\ raised' = raised
    /\ UNCHANGED <<mode, r_planet>>
    /\ UNCHANGED fluxVars

(***************************************************************************)
(* A call of net_horizontal_flux_to_region, one loop iteration in three    *)
(* steps.                                                                  *)
(***************************************************************************)
args == <<mode, heap, r_planet, scalar_cube, u, v, latlon_box_dict, vertical_constraint>>

\* lines 44-52: the next key of the box, the snap to the grid, the warning
Snap ==
    /\ mode = "flux"
    /\ pc = "loop"
    /\ i <= Len(latlon_box_dict)
    /\ LET ll_val == latlon_box_dict[i].val
           this_coord == ThisCoord(latlon_box_dict[i].key)
           n == NearestCoordValue(GridPts(this_coord), ll_val)
       IN /\ nearest' = n
          /\ warned' = IF WarnNeeded(n, ll_val)
                       THEN Append(warned, [at |-> i, coord |-> this_coord, away |-> n - ll_val])
                       ELSE warned
    /\ pc' = "extract"
    /\ UNCHANGED <<raised, i, vcross_cnstr, cube, vcross_area, total_h_fluxes, net_flux>>
    /\ UNCHANGED args

\* lines 53-67: the constraint and the cross-section of scalar_cube
ExtractSection ==
    /\ mode = "flux"
    /\ pc = "extract"
    /\ LET this_coord == ThisCoord(latlon_box_dict[i].key)
           other_coord == OtherCoord(latlon_box_dict[i].key)
           key0 == IF other_coord = "latitude" THEN "latitude0" ELSE "longitude0"
           key1 == IF other_coord = "latitude" THEN "latitude1" ELSE "longitude1"
       IN IF ~BoxHas(latlon_box_dict, key0) \/ ~BoxHas(latlon_box_dict, key1)
          THEN /\ raised' = "KeyError"
               /\ pc' = "raised"
               /\ UNCHANGED <<vcross_cnstr, cube>>
          ELSE LET c == VCrossCnstr(this_coord, nearest, other_coord,
                                    BoxGet(latlon_box_dict, key0),
                                    BoxGet(latlon_box_dict, key1), vertical_constraint)
               IN /\ vcross_cnstr' = c
                  /\ cube' = Extract(scalar_cube, c)
                  /\ pc' = "area"
                  /\ raised' = raised
    /\ UNCHANGED <<i, nearest, vcross_area, total_h_fluxes, warned, net_flux>>
    /\ UNCHANGED args

\* lines 68-78: the area of the cross-section, the flux through it, its total
AreaFlux ==
    /\ mode = "flux"
    /\ pc = "area"
    /\ LET area == VerticalCrossSectionArea(cube, r_planet)
           this_coord == ThisCoord(latlon_box_dict[i].key)
           wind == Extract(PerpendicularWind(this_coord, u, v), vcross_cnstr)
           scal == Extract(scalar_cube, vcross_cnstr)
       IN IF area.kind = "raise"
          THEN /\ raised' = area.exc
               /\ pc' = "raised"
               /\ UNCHANGED <<i, cube, vcross_area, total_h_fluxes>>
          ELSE /\ vcross_area' = area
               /\ cube' = [wind EXCEPT !.name = "unknown"]
               /\ total_h_fluxes' =
                    Append(total_h_fluxes,
                           CollapsedFlux(SectionRows(wind, this_coord),
                                         SectionRows(scal, this_coord), area.data))
               /\ i' = i + 1
               /\ pc' = "loop"
               /\ raised' = raised
    /\ UNCHANGED <<nearest, vcross_cnstr, warned, net_flux>>
    /\ UNCHANGED args

\* lines 80-85: the net of the four totals, renamed and returned
Return ==
    /\ mode = "flux"
    /\ pc = "loop"
    /\ i > Len(latlon_box_dict)
    /\ IF ReturnValue(total_h_fluxes).kind = "raise"
       THEN /\ raised' = ReturnValue(total_h_fluxes).exc
            /\ pc' = "raised"
            /\ net_flux' = net_flux
       ELSE /\ net_flux' = [kind |-> "cube", data |-> ReturnValue(total_h_fluxes).data,
                            name |-> <<"net_", scalar_cube.name, "_horizontal_flux_to_region">>]
            /\ pc' = "done"
            /\ raised' = raised
    /\ UNCHANGED <<i, nearest, vcross_cnstr, cube, vcross_area, total_h_fluxes, warned>>
    /\ UNCHANGED args

Next == AreaCall \/ Snap \/ ExtractSection \/ AreaFlux \/ Return

Spec == Init /\ [][Next]_vars

(***************************************************************************)
(* What the properties below speak of.                                     *)
(***************************************************************************)
CanonicalOrder == <<"longitude0", "longitude1", "latitude0", "latitude1">>

KeyOrder == [p \in 1..Len(latlon_box_dict) |-> latlon_box_dict[p].key]

FullBox == Len(latlon_box_dict) = 4

Key0(coord) == IF coord = "latitude" THEN "latitude0" ELSE "longitude0"
Key1(coord) == IF coord = "latitude" THEN "latitude1" ELSE "longitude1"

\* The cross-section of a field for one key of a full box: lines 45-67
KeySection(field, key) ==
    Extract(field,
            VCrossCnstr(ThisCoord(key),
                        NearestCoordValue(GridPts(ThisCoord(key)), BoxGet(latlon_box_dict, key)),
                        OtherCoord(key),
                        BoxGet(latlon_box_dict, Key0(OtherCoord(key))),
                        BoxGet(latlon_box_dict, Key1(OtherCoord(key))),
                        vertical_constraint))

\* The collapsed sum of wind x scalar x cell area over the boundary slice of
\* one key of a full box: lines 45-77
BoundaryFlux(key) ==
    CollapsedFlux(SectionRows(KeySection(PerpendicularWind(ThisCoord(key), u, v), key), ThisCoord(key)),
                  SectionRows(KeySection(scalar_cube, key), ThisCoord(key)),
                  VerticalCrossSectionArea(KeySection(scalar_cube, key), r_planet).data)

ZeroWind ==
    \A k \in 1..NLev, a \in 1..NLat, b \in 1..NLon : u.data[k][a][b] = 0 /\ v.data[k][a][b] = 0

Returned == mode = "flux" /\ pc = "done"

\* The points a cube holds of the coordinate called name
PointsOf(c, name) ==
    LET all == c.dim_coords \o c.scalar_coords
    IN UNION {{all[d].points[a] : a \in 1..Len(all[d].points)} :
                d \in {e \in 1..Len(all) : all[e].name = name}}

(***************************************************************************)
(* C1.  As claimed: with the keys in the order longitude0, longitude1,     *)
(* latitude0, latitude1 the returned net is (flux at longitude1 - flux at  *)
(* longitude0) + (flux at latitude1 - flux at latitude0).                  *)
(***************************************************************************)
C1_NetIsOutwardFlux ==
    (Returned /\ KeyOrder = CanonicalOrder) =>
        net_flux.data = (BoundaryFlux("longitude1") - BoundaryFlux("longitude0"))
                        + (BoundaryFlux("latitude1") - BoundaryFlux("latitude0"))

(***************************************************************************)
(* C1, amended: with the keys in that order the returned net is (flux at   *)
(* longitude0 - flux at longitude1) + (flux at latitude0 - flux at         *)
(* latitude1): the flux into the region is the positive one.               *)
(***************************************************************************)
C1_NetIsInwardFlux ==
    (Returned /\ KeyOrder = CanonicalOrder) =>
        net_flux.data = (BoundaryFlux("longitude0") - BoundaryFlux("longitude1"))
                        + (BoundaryFlux("latitude0") - BoundaryFlux("latitude1"))

C1_Witness ==
    /\ Returned
    /\ KeyOrder = CanonicalOrder
    /\ net_flux.data # 0
    /\ BoundaryFlux("longitude0") # BoundaryFlux("longitude1")

(***************************************************************************)
(* C2.  As claimed: with u and v zero at every grid point the call, made   *)
(* with any box of the four keys, does not fail and returns 0.             *)
(***************************************************************************)
C2_ZeroWindNeverFails ==
    (mode = "flux" /\ ZeroWind /\ FullBox /\ ~vertical_constraint.given) =>
        /\ pc # "raised"
        /\ pc = "done" => net_flux.data = 0

(***************************************************************************)
(* C2, amended: with u and v zero at every grid point every call that      *)
(* returns returns exactly 0.                                              *)
(***************************************************************************)
C2_ZeroWindReturnsZero ==
    (Returned /\ ZeroWind) => net_flux.data = 0

C2_Witness ==
    /\ Returned
    /\ ZeroWind
    /\ vcross_area.data[1][1] # 0

(***************************************************************************)
(* C10.  For any order of the four keys the returned net is                *)
(* F(1st) - F(2nd) + F(3rd) - F(4th), F being the flux of the key whatever *)
(* its position: the net is the same with the two pairs exchanged, and a   *)
(* pair contributes the negated amount with its keys exchanged.            *)
(***************************************************************************)
C10_SignsFollowPosition ==
    Returned =>
        LET F == [p \in 1..4 |-> BoundaryFlux(KeyOrder[p])]
        IN /\ net_flux.data = F[1] - F[2] + F[3] - F[4]
           /\ net_flux.data = F[3] - F[4] + F[1] - F[2]
           /\ total_h_fluxes[1] - total_h_fluxes[2] = -(F[2] - F[1])
           /\ total_h_fluxes[3] - total_h_fluxes[4] = -(F[4] - F[3])

C10_Witness ==
    /\ Returned
    /\ KeyOrder = <<"latitude1", "longitude1", "longitude0", "latitude0">>
    /\ net_flux.data # 0
    /\ BoundaryFlux("latitude1") - BoundaryFlux("longitude1") # 0

\* The key of the iteration under way, and the limits the box gives for its
\* free axis
CurKey == latlon_box_dict[i].key
OtherMin == BoxGet(latlon_box_dict, Key0(OtherCoord(CurKey)))
OtherMax == BoxGet(latlon_box_dict, Key1(OtherCoord(CurKey)))
GridSet(name) == {GridPts(name)[a] : a \in 1..Len(GridPts(name))}
LevelsKept == {k \in 1..NLev : vertical_constraint.given => k \in vertical_constraint.levels}

\* The cross-section has just been extracted
Extracted == mode = "flux" /\ pc = "area"

(***************************************************************************)
(* C3.  The free-axis grid values of the extracted cross-section are       *)
(* those x with other_min <= x <= other_max when other_max >= other_min,   *)
(* and those with x >= other_min or x <= other_max when other_max <        *)
(* other_min, the limits being the box's entries for the free axis.        *)
(***************************************************************************)
C3_FreeAxisSelection ==
    Extracted =>
        LET expected ==
                IF OtherMax >= OtherMin
                THEN {x \in GridSet(OtherCoord(CurKey)) : OtherMin <= x /\ x <= OtherMax}
                ELSE {x \in GridSet(OtherCoord(CurKey)) : x >= OtherMin \/ x <= OtherMax}
        IN /\ cube # None => PointsOf(cube, OtherCoord(CurKey)) = expected
           /\ cube = None <=> (expected = {} \/ LevelsKept = {})

C3_Witness ==
    /\ Extracted
    /\ CurKey = "latitude0"
    /\ OtherMin = 270 /\ OtherMax = 0
    /\ cube # None
    /\ PointsOf(cube, "longitude") = {270, 0}

\* The distance from the value the box gives for the key at position p to
\* the nearest grid value of its axis
MinDistance(p) ==
    LET pts == GridSet(ThisCoord(latlon_box_dict[p].key))
        d == {Abs(x - latlon_box_dict[p].val) : x \in pts}
    IN CHOOSE m \in d : \A e \in d : m <= e

\* The iteration of position p has made its snap (lines 47-52)
Snapped(p) ==
    \/ p < i
    \/ p = i /\ p <= Len(latlon_box_dict) /\ pc \in {"extract", "area", "raised"}

WarningsAt(p) == Len(SelectSeq(warned, LAMBDA w : w.at = p))

(***************************************************************************)
(* C4.  Each key whose iteration has begun has one warning if its nearest  *)
(* grid value is more than 10 away from the requested value and none       *)
(* otherwise (none at exactly 10); the call goes on after the warning, and *)
(* the cross-section and the area are those at the nearest grid value.     *)
(***************************************************************************)
C4_SnapAndWarn ==
    mode = "flux" =>
        /\ \A p \in 1..Len(latlon_box_dict) :
              WarningsAt(p) = IF Snapped(p) /\ MinDistance(p) > 10 THEN 1 ELSE 0
        /\ pc = "extract" => raised = NoExc
        /\ (Extracted /\ cube # None) =>
              /\ \E x \in GridSet(ThisCoord(CurKey)) :
                    /\ Abs(x - latlon_box_dict[i].val) = MinDistance(i)
                    /\ PointsOf(cube, ThisCoord(CurKey)) = {x}
              /\ VerticalCrossSectionArea(cube, r_planet).kind = "cube" =>
                    PointsOf(VerticalCrossSectionArea(cube, r_planet), ThisCoord(CurKey))
                        = PointsOf(cube, ThisCoord(CurKey))
        /\ (pc = "loop" /\ i > 1) =>
              PointsOf(cube, ThisCoord(latlon_box_dict[i - 1].key)) = {nearest}

C4_Witness ==
    /\ Returned
    /\ Len(warned) = 1
    /\ \E p \in 1..4 : MinDistance(p) = 10 /\ WarningsAt(p) = 0
    /\ \E p \in 1..4 : MinDistance(p) = 15 /\ WarningsAt(p) = 1
                       /\ latlon_box_dict[p].val = 75
    /\ net_flux.data # 0

LongitudesEqual ==
    /\ mode = "flux"
    /\ FullBox
    /\ BoxGet(latlon_box_dict, "longitude0") = BoxGet(latlon_box_dict, "longitude1")

PositionOf(key) == CHOOSE p \in 1..Len(latlon_box_dict) : latlon_box_dict[p].key = key

(***************************************************************************)
(* C5.  As claimed: with longitude0 = longitude1 the call returns, the     *)
(* latitude boundaries are taken over the full longitude range, and the    *)
(* net is the latitude terms alone.                                        *)
(***************************************************************************)
C5_ClosedLoop ==
    LongitudesEqual =>
        /\ pc # "raised"
        /\ (Extracted /\ ThisCoord(CurKey) = "latitude") =>
              (cube # None /\ PointsOf(cube, "longitude") = GridSet("longitude"))
        /\ pc = "done" =>
              net_flux.data = total_h_fluxes[PositionOf("latitude0")]
                              - total_h_fluxes[PositionOf("latitude1")]

(***************************************************************************)
(* C5, amended: with longitude0 = longitude1 the two longitude-boundary    *)
(* fluxes are equal and cancel, but a latitude boundary keeps only the     *)
(* grid longitudes equal to that one value, at most one and never the full *)
(* range, so that the call raises and returns no net flux.                 *)
(***************************************************************************)
C5_DegenerateRange ==
    LongitudesEqual =>
        /\ pc # "done"
        /\ net_flux = None
        /\ (Extracted /\ ThisCoord(CurKey) = "latitude" /\ cube # None) =>
              /\ PointsOf(cube, "longitude")
                    = {x \in GridSet("longitude") : x = BoxGet(latlon_box_dict, "longitude0")}
              /\ Cardinality(PointsOf(cube, "longitude")) = 1
              /\ VerticalCrossSectionArea(cube, r_planet).kind = "raise"
        /\ (Extracted /\ ThisCoord(CurKey) = "latitude" /\ cube = None) =>
              VerticalCrossSectionArea(cube, r_planet).kind = "raise"
        /\ (PositionOf("longitude0") < i /\ PositionOf("longitude1") < i) =>
              total_h_fluxes[PositionOf("longitude0")] = total_h_fluxes[PositionOf("longitude1")]

C5_Witness ==
    /\ LongitudesEqual
    /\ pc = "raised"
    /\ raised = "IndexError"
    /\ Len(total_h_fluxes) = 2
    /\ total_h_fluxes[1] = total_h_fluxes[2]
    /\ total_h_fluxes[1] # 0
    /\ ThisCoord(CurKey) = "latitude"
    /\ PointsOf(cube, "longitude") = {0}

\* The cells the constraint of a key of a full box keeps
CellsKept(key) ==
    LET lo == BoxGet(latlon_box_dict, Key0(OtherCoord(key)))
        hi == BoxGet(latlon_box_dict, Key1(OtherCoord(key)))
        free == IF hi >= lo
                THEN {x \in GridSet(OtherCoord(key)) : lo <= x /\ x <= hi}
                ELSE {x \in GridSet(OtherCoord(key)) : x >= lo \/ x <= hi}
    IN free \X LevelsKept

(***************************************************************************)
(* C7.  A call in which a boundary selection is empty, or which has fewer  *)
(* than four boundary fluxes, ends with an exception: it returns only with *)
(* four fluxes, each of a selection that holds cells, and a call that has  *)
(* not returned has produced no net value.                                 *)
(***************************************************************************)
C7_NoZeroFill ==
    mode = "flux" =>
        /\ pc = "done" =>
              /\ FullBox
              /\ Len(total_h_fluxes) = 4
              /\ \A key \in BoxKeys : CellsKept(key) # {}
        /\ pc # "done" => net_flux = None
        /\ pc = "raised" <=> raised # NoExc
        /\ (pc = "loop" /\ i > 1) => cube # None
        /\ (pc = "raised" /\ i <= Len(latlon_box_dict) /\ cube = None /\ raised # "KeyError")
              => raised = "AttributeError"

C7_Witness ==
    /\ mode = "flux"
    /\ pc = "raised"
    /\ raised = "AttributeError"
    /\ cube = None
    /\ Len(total_h_fluxes) = 2
    /\ total_h_fluxes[1] # 0
    /\ CellsKept(CurKey) = {}
    /\ net_flux = None

\* A second way to a call with fewer than four fluxes: a box without keys
C7_WitnessShortBox ==
    /\ mode = "flux"
    /\ latlon_box_dict = <<>>
    /\ pc = "raised"
    /\ raised = "IndexError"

\* A call of vertical_cross_section_area by itself has returned
AreaReturned == mode = "area" /\ pc = "returned"

\* The argument is a latitude x longitude slice
LatLonSlice ==
    /\ heap.caller # None
    /\ Len(heap.caller.dim_coords) = 2
    /\ heap.caller.dim_coords[1].name = "latitude"
    /\ heap.caller.dim_coords[2].name = "longitude"

Spacing(coord) == coord.points[2] - coord.points[1]

(***************************************************************************)
(* C6.  As claimed: on a uniform latitude x longitude slice the cell at    *)
(* latitude phi has the area R^2 (pi/180)^2 dlambda dphi cos(phi).  (Twice *)
(* the area is compared, CosTimes2 being twice the cosine.)                *)
(***************************************************************************)
C6_AreaOfSphereCell ==
    (AreaReturned /\ LatLonSlice) =>
        LET lat == heap.caller.dim_coords[1]
            lon == heap.caller.dim_coords[2]
            m == (PiNum * r_planet) \div (PiDen * 180)
        IN \A a \in 1..Len(lat.points), b \in 1..Len(lon.points) :
              2 * heap.result.data[a][b]
                  = m * m * Spacing(lon) * Spacing(lat) * CosTimes2(lat.points[a])

(***************************************************************************)
(* C6, amended: on a uniform latitude x longitude slice every cell has the *)
(* area R (pi/180) dlambda dphi cos(phi0), phi0 being the first latitude   *)
(* of the slice: the degrees-to-metres factor is applied to the longitude  *)
(* extent only, and the cosine is that of the first latitude point.        *)
(***************************************************************************)
C6_AreaOfSliceCell ==
    (AreaReturned /\ LatLonSlice) =>
        LET lat == heap.caller.dim_coords[1]
            lon == heap.caller.dim_coords[2]
            m == (PiNum * r_planet) \div (PiDen * 180)
        IN \A a \in 1..Len(lat.points), b \in 1..Len(lon.points) :
              2 * heap.result.data[a][b]
                  = m * Spacing(lon) * Spacing(lat) * CosTimes2(lat.points[1])

C6_Witness ==
    /\ AreaReturned
    /\ LatLonSlice
    /\ heap.caller.dim_coords[1].points = <<0, 60>>
    /\ heap.result.data[2][1] = heap.result.data[1][1]
    /\ heap.result.data[2][1] # 0

NoDimBounds(c) == \A d \in 1..Len(c.dim_coords) : ~HasBounds(c.dim_coords[d])

(***************************************************************************)
(* C8.  No step of either call changes what the caller supplied: the slice *)
(* given to vertical_cross_section_area keeps its bounds, present or       *)
(* absent, and scalar_cube, u, v, the box, the vertical constraint and the *)
(* radius stay as they were; the returned area has no bounds on its        *)
(* dimension coordinates.                                                  *)
(***************************************************************************)
C8_InputsUnchanged ==
    /\ [][/\ heap'.caller = heap.caller
          /\ scalar_cube' = scalar_cube
          /\ u' = u
          /\ v' = v
          /\ latlon_box_dict' = latlon_box_dict
          /\ vertical_constraint' = vertical_constraint
          /\ r_planet' = r_planet]_vars
    /\ [](AreaReturned => NoDimBounds(heap.result))
    /\ [](vcross_area # None => NoDimBounds(vcross_area))

C8_Witness ==
    /\ AreaReturned
    /\ ~HasBounds(heap.caller.dim_coords[1])
    /\ HasBounds(heap.caller.dim_coords[2])
    /\ HasBounds(heap.local.dim_coords[1])
    /\ NoDimBounds(heap.result)

EvenlySpaced(coord) ==
    /\ Len(coord.points) >= 2
    /\ \A a \in 1..(Len(coord.points) - 1) :
          coord.points[a + 1] - coord.points[a] = Spacing(coord)

WithMidpointBounds(c) ==
    [c EXCEPT !.dim_coords =
        [d \in 1..Len(c.dim_coords) |->
            [c.dim_coords[d] EXCEPT !.bounds = MidpointBounds(c.dim_coords[d].points)]]]

WithoutBounds(c) ==
    [c EXCEPT !.dim_coords =
        [d \in 1..Len(c.dim_coords) |-> [c.dim_coords[d] EXCEPT !.bounds = <<>>]]]

\* Evenly spaced dimension coordinates, each with no bounds or with the
\* midpoints between neighbouring points as bounds
EvenSlice ==
    /\ heap.caller # None
    /\ Len(heap.caller.dim_coords) = 2
    /\ \A d \in 1..2 :
          /\ EvenlySpaced(heap.caller.dim_coords[d])
          /\ heap.caller.dim_coords[d].bounds \in
                {<<>>, MidpointBounds(heap.caller.dim_coords[d].points)}

====
